---- MODULE Spec2Model ----
(***************************************************************************)
(* Inmobiscrap: the scraping pipeline of scraping/tasks.py                 *)
(* (scrape_url_task, create_or_update_property, scrape_pending_urls), the  *)
(* bookkeeping of scraping/models.py (URLToScrape.mark_as_scraped,         *)
(* ScrapingLog) and the places that dispatch the task (api/views.py,       *)
(* management/commands/run_scraping.py).                                   *)
(*                                                                         *)
(* Time is counted in hours (the steps of the model's clock).  Prices are   *)
(* counted in millions of pesos.                                           *)
(* A Celery message may be delivered at any time after it was sent (the    *)
(* countdown it carries is recorded, not waited for).  A ScrapingLog row   *)
(* is written only through the object of the invocation that created it    *)
(* (tasks.py lines 850, 925, 959): the model keeps the row with its        *)
(* invocation and counts the rows created.                                 *)
(***************************************************************************)
EXTENDS Integers, Sequences, FiniteSets, Bags, TLC

\* ------------------------------------------------------------------ bounds
\* Invocations of scrape_url_task the model lets begin (each creates one
\* ScrapingLog row): with one worker, with the pool of workers, and by the
\* run_scraping command; and beside the maintenance tasks.
MaxLogs == 4
MaxPoolLogs == 3
MaxCalls == 3
MaxAdmLogs == 2
\* Messages the broker holds when a new one is sent.
MaxQueue == 1
\* Hours the clock may advance.
MaxNow == 1
\* scrape_frequency_hours the modelled sources were created with.
FreqHours == 1

\* ------------------------------------------------------- program constants
max_retries == 3
RetryBaseSeconds == 60
\* failed_scrapes__gte=5 of deactivate_failed_urls.
FailedThreshold == 5
\* DecimalField(max_digits=12, decimal_places=2): 10 integer digits, that is
\* prices below 10^10 pesos = 10^4 millions.
PrecioOverflow == 10000

Null == 0 - 1

\* ---------------------------------------------------------------- population
Src == {1, 2}
Workers == {"w1", "w2"}
Cli == "cli"
Execs == Workers \cup {Cli}

\* site_name of each source: both sources list the same portal.
SiteName(s) == "Portal Inmobiliario"
Sitios == {SiteName(s) : s \in Src}

Tipos == {"casa", "departamento", "terreno", "casa_prefabricada"}

\* ------------------------------------------------------------ raw candidates
\* What hybrid_extraction may hand over: dicts with optional fields (a
\* missing field is "" or 0) and, from the LLM's JSON, values that are no dict.
RawCasa == [isdict |-> TRUE, titulo |-> "Casa en Providencia", descripcion |-> "",
            precio |-> 120, comuna |-> "Providencia", codigo_propiedad |-> "MLC-1",
            metros_cuadrados |-> 140]
RawDepto == [isdict |-> TRUE, titulo |-> "  Depto en Nunoa ", descripcion |-> "",
             precio |-> 155, comuna |-> "Nunoa", codigo_propiedad |-> "",
             metros_cuadrados |-> 60]
RawVacio == [isdict |-> TRUE, titulo |-> "", descripcion |-> "",
             precio |-> 0, comuna |-> "", codigo_propiedad |-> "",
             metros_cuadrados |-> 0]
RawCaro == [isdict |-> TRUE, titulo |-> "Parcela con casa", descripcion |-> "",
            precio |-> 20000, comuna |-> "Colina", codigo_propiedad |-> "MLC-2",
            metros_cuadrados |-> 5000]
RawTexto == [isdict |-> FALSE, titulo |-> "", descripcion |-> "",
             precio |-> 0, comuna |-> "", codigo_propiedad |-> "",
             metros_cuadrados |-> 0]

\* The candidate lists the page of a source may yield (the empty list: the
\* fetch failed or nothing was extracted).  Both pages list RawCasa.
PagesOf(s) ==
    IF s = 1 THEN { <<>>, <<RawCasa, RawDepto>> }
    ELSE { <<>>, <<RawTexto, RawCasa, RawVacio>>, <<RawCaro>> }

\* ------------------------------------------------------------------- texts
\* The characters of the strings the model uses (str as a sequence).
Letras(t) ==
    CASE t = "Casa en Providencia" ->
           <<"C", "a", "s", "a", " ", "e", "n", " ", "P", "r", "o", "v",
             "i", "d", "e", "n", "c", "i", "a">>
      [] t = "  Depto en Nunoa " ->
           <<" ", " ", "D", "e", "p", "t", "o", " ", "e", "n", " ", "N",
             "u", "n", "o", "a", " ">>
      [] t = "Depto en Nunoa" ->
           <<"D", "e", "p", "t", "o", " ", "e", "n", " ", "N", "u", "n",
             "o", "a">>
      [] t = "Parcela con casa" ->
           <<"P", "a", "r", "c", "e", "l", "a", " ", "c", "o", "n", " ",
             "c", "a", "s", "a">>
      [] t = "Sin titulo" ->
           <<"S", "i", "n", " ", "t", "i", "t", "u", "l", "o">>
      [] t = "Casa 3 dormitorios Las Condes" ->
           <<"C", "a", "s", "a", " ", "3", " ", "d", "o", "r", "m", "i",
             "t", "o", "r", "i", "o", "s", " ", "L", "a", "s", " ", "C",
             "o", "n", "d", "e", "s">>
      [] t = "Casa 3 dorm Las Condes" ->
           <<"C", "a", "s", "a", " ", "3", " ", "d", "o", "r", "m", " ",
             "L", "a", "s", " ", "C", "o", "n", "d", "e", "s">>
      [] t = " CASA 3 DORMITORIOS LAS CONDES " ->
           <<" ", "C", "A", "S", "A", " ", "3", " ", "D", "O", "R", "M",
             "I", "T", "O", "R", "I", "O", "S", " ", "L", "A", "S", " ",
             "C", "O", "N", "D", "E", "S", " ">>
      [] t = "Las Condes" ->
           <<"L", "a", "s", " ", "C", "o", "n", "d", "e", "s">>
      [] t = "Departamento nuevo en Providencia con terraza" ->
           <<"D", "e", "p", "a", "r", "t", "a", "m", "e", "n", "t", "o",
             " ", "n", "u", "e", "v", "o", " ", "e", "n", " ", "P", "r",
             "o", "v", "i", "d", "e", "n", "c", "i", "a", " ", "c", "o",
             "n", " ", "t", "e", "r", "r", "a", "z", "a">>
      [] t = "Departamento nuevo en Providencia sin terraza" ->
           <<"D", "e", "p", "a", "r", "t", "a", "m", "e", "n", "t", "o",
             " ", "n", "u", "e", "v", "o", " ", "e", "n", " ", "P", "r",
             "o", "v", "i", "d", "e", "n", "c", "i", "a", " ", "s", "i",
             "n", " ", "t", "e", "r", "r", "a", "z", "a">>
      [] t = "Terreno en Colina" ->
           <<"T", "e", "r", "r", "e", "n", "o", " ", "e", "n", " ", "C",
             "o", "l", "i", "n", "a">>
      [] t = "Departamento en parcela de agrado" ->
           <<"D", "e", "p", "a", "r", "t", "a", "m", "e", "n", "t", "o",
             " ", "e", "n", " ", "p", "a", "r", "c", "e", "l", "a", " ",
             "d", "e", " ", "a", "g", "r", "a", "d", "o">>
      [] t = "Departamento amplio" ->
           <<"D", "e", "p", "a", "r", "t", "a", "m", "e", "n", "t", "o",
             " ", "a", "m", "p", "l", "i", "o">>
      [] t = "Casa prefabricada" ->
           <<"C", "a", "s", "a", " ", "p", "r", "e", "f", "a", "b", "r",
             "i", "c", "a", "d", "a">>
      [] t = "Propiedad en venta" ->
           <<"P", "r", "o", "p", "i", "e", "d", "a", "d", " ", "e", "n",
             " ", "v", "e", "n", "t", "a">>
      [] t = "con sitio propio" ->
           <<"c", "o", "n", " ", "s", "i", "t", "i", "o", " ", "p", "r",
             "o", "p", "i", "o">>
      [] t = "vista al mar" ->
           <<"v", "i", "s", "t", "a", " ", "a", "l", " ", "m", "a", "r">>
      [] t = "terreno" ->
           <<"t", "e", "r", "r", "e", "n", "o">>
      [] t = "lote" ->
           <<"l", "o", "t", "e">>
      [] t = "sitio" ->
           <<"s", "i", "t", "i", "o">>
      [] t = "parcela" ->
           <<"p", "a", "r", "c", "e", "l", "a">>
      [] t = "predio" ->
           <<"p", "r", "e", "d", "i", "o">>
      [] t = "departamento" ->
           <<"d", "e", "p", "a", "r", "t", "a", "m", "e", "n", "t", "o">>
      [] t = "depto" ->
           <<"d", "e", "p", "t", "o">>
      [] t = "apartamento" ->
           <<"a", "p", "a", "r", "t", "a", "m", "e", "n", "t", "o">>
      [] t = "flat" ->
           <<"f", "l", "a", "t">>
      [] t = "pent-house" ->
           <<"p", "e", "n", "t", "-", "h", "o", "u", "s", "e">>
      [] t = "penthouse" ->
           <<"p", "e", "n", "t", "h", "o", "u", "s", "e">>
      [] t = "prefabricada" ->
           <<"p", "r", "e", "f", "a", "b", "r", "i", "c", "a", "d", "a">>
      [] t = "modular" ->
           <<"m", "o", "d", "u", "l", "a", "r">>
      [] t = "container" ->
           <<"c", "o", "n", "t", "a", "i", "n", "e", "r">>
      [] t = "movil" ->
           <<"m", "o", "v", "i", "l">>
      [] t = "tiny house" ->
           <<"t", "i", "n", "y", " ", "h", "o", "u", "s", "e">>
      [] t = "casa" ->
           <<"c", "a", "s", "a">>
      [] t = "chalet" ->
           <<"c", "h", "a", "l", "e", "t">>
      [] t = "villa" ->
           <<"v", "i", "l", "l", "a">>
      [] t = "cabana" ->
           <<"c", "a", "b", "a", "n", "a">>
      [] t = "Casa $120.000.000 venta" ->
           <<"C", "a", "s", "a", " ", "$", "1", "2", "0", ".", "0", "0", "0",
             ".", "0", "0", "0", " ", "v", "e", "n", "t", "a">>
      [] t = "Depto UF 4.200" ->
           <<"D", "e", "p", "t", "o", " ", "U", "F", " ", "4", ".", "2", "0",
             "0">>
      [] t = "$150 millones" ->
           <<"$", "1", "5", "0", " ", "m", "i", "l", "l", "o", "n", "e", "s">>
      [] t = "$ 95.000.000" ->
           <<"$", " ", "9", "5", ".", "0", "0", "0", ".", "0", "0", "0">>
      [] t = "Terreno 3.500 UF" ->
           <<"T", "e", "r", "r", "e", "n", "o", " ", "3", ".", "5", "0", "0",
             " ", "U", "F">>
      [] t = "$1,5 millones" ->
           <<"$", "1", ",", "5", " ", "m", "i", "l", "l", "o", "n", "e", "s">>
      [] t = "Precio $ . consultar" ->
           <<"P", "r", "e", "c", "i", "o", " ", "$", " ", ".", " ", "c", "o",
             "n", "s", "u", "l", "t", "a", "r">>
      [] t = "sin precio" ->
           <<"s", "i", "n", " ", "p", "r", "e", "c", "i", "o">>
      [] t = "uf 100 o $3.700.000" ->
           <<"u", "f", " ", "1", "0", "0", " ", "o", " ", "$", "3", ".", "7",
             "0", "0", ".", "0", "0", "0">>
      [] t = "$200 Millones" ->
           <<"$", "2", "0", "0", " ", "M", "i", "l", "l", "o", "n", "e", "s">>
      [] t = "$300 millon" ->
           <<"$", "3", "0", "0", " ", "m", "i", "l", "l", "o", "n">>
      [] t = "$1,2,3" ->
           <<"$", "1", ",", "2", ",", "3">>
      [] t = "millones" ->
           <<"m", "i", "l", "l", "o", "n", "e", "s">>
      [] t = "millone" ->
           <<"m", "i", "l", "l", "o", "n", "e">>
      [] t = "uf" ->
           <<"u", "f">>
      [] OTHER -> <<>>

Mayusculas == <<"A", "B", "C", "D", "E", "F", "G", "H", "I", "J", "K", "L", "M",
                "N", "O", "P", "Q", "R", "S", "T", "U", "V", "W", "X", "Y", "Z">>
Minusculas == <<"a", "b", "c", "d", "e", "f", "g", "h", "i", "j", "k", "l", "m",
                "n", "o", "p", "q", "r", "s", "t", "u", "v", "w", "x", "y", "z">>
\* str.lower()
Lower(cs) ==
    [k \in 1..Len(cs) |->
        IF \E j \in 1..Len(Mayusculas) : Mayusculas[j] = cs[k]
        THEN Minusculas[CHOOSE j \in 1..Len(Mayusculas) : Mayusculas[j] = cs[k]]
        ELSE cs[k]]
\* str.strip()
StripLetras(cs) ==
    LET ink == {k \in 1..Len(cs) : cs[k] # " "}
    IN  IF ink = {} THEN <<>>
        ELSE SubSeq(cs, CHOOSE k \in ink : \A j \in ink : k <= j,
                        CHOOSE k \in ink : \A j \in ink : j <= k)
\* w in cs
Contains(cs, w) ==
    \E k \in 1..(Len(cs) - Len(w) + 1) : SubSeq(cs, k, k + Len(w) - 1) = w
\* cs[:n]
Prefix(cs, n) == SubSeq(cs, 1, IF Len(cs) < n THEN Len(cs) ELSE n)

\* ------------------------------------------------------------ pure functions
\* str.strip() on the strings the model uses.
Strip(t) == IF t = "  Depto en Nunoa " THEN "Depto en Nunoa" ELSE t

\* clean_property_data: the fields the pipeline decides on.  It reads its
\* argument with data.get, which raises on a value that is no dict.
CleanRaises(d) == ~d.isdict
CleanPropertyData(d) ==
    [isdict |-> TRUE,
     titulo |-> IF Strip(d.titulo) # "" THEN Strip(d.titulo) ELSE "Sin titulo",
     descripcion |-> Strip(d.descripcion),
     precio |-> d.precio,
     comuna |-> Strip(d.comuna),
     codigo_propiedad |-> Strip(d.codigo_propiedad),
     metros_cuadrados |-> d.metros_cuadrados]

\* The minimum-data test of scrape_url_task (line 883) and the one of
\* create_or_update_property (line 710), on cleaned data.
SinDatos(data) == data.titulo = "" /\ data.precio <= 0

\* f"{precio}" of the cleaned price: a float (pesos), or the int 0.
PrecioStr(p) == IF p = 0 THEN "0" ELSE ToString(p) \o "000000.0"
UniqueStr(data) == data.titulo \o PrecioStr(data.precio) \o data.comuna
\* hashlib.md5(unique_str.encode()).hexdigest()[:10] of the strings that occur
\* ("Sin titulo" stands for the accented default title).
Md5Hex10(u) ==
    CASE u = "Depto en Nunoa155000000.0Nunoa" -> "2c88bb5464"
      [] u = "  Depto en Nunoa 155000000.0Nunoa" -> "8ab12d1df8"
      [] u = "Sin titulo0" -> "fcd3d28dad"
      [] u = "0" -> "cfcd208495"
      [] u = "Casa en Providencia120000000.0Providencia" -> "12023947a2"
      [] OTHER -> "5053cb42b7"
\* The upsert code: the extracted one, else the derived one.
CodigoDe(data) ==
    IF data.codigo_propiedad # "" THEN data.codigo_propiedad
    ELSE Md5Hex10(UniqueStr(data))

\* The keywords of determine_property_type ("movil" and "cabana" stand for
\* the accented words).
Palabras == {"terreno", "lote", "sitio", "parcela", "predio",
             "departamento", "depto", "apartamento", "flat", "pent-house",
             "penthouse", "prefabricada", "modular", "container", "movil",
             "tiny house", "casa", "chalet", "villa", "cabana"}
\* The titles and descriptions of the modelled candidates, raw and cleaned.
Titulos == {"", "Casa en Providencia", "  Depto en Nunoa ", "Depto en Nunoa",
            "Parcela con casa", "Sin titulo",
            "Casa 3 dormitorios Las Condes", "Casa 3 dorm Las Condes",
            " CASA 3 DORMITORIOS LAS CONDES ", "Las Condes",
            "Departamento nuevo en Providencia con terraza",
            "Departamento nuevo en Providencia sin terraza",
            "Terreno en Colina", "Departamento en parcela de agrado",
            "Departamento amplio", "Casa prefabricada", "Propiedad en venta"}
Descripciones == {"", "con sitio propio", "vista al mar"}
\* Lines 574-577: text = titulo.lower() + ' ' + descripcion.lower()
Texto(titulo, descripcion) ==
    Lower(Letras(titulo)) \o <<" ">> \o Lower(Letras(descripcion))
\* The keywords of W that are in the text cs (word in text).
RECURSIVE Halladas(_, _)
Halladas(cs, W) ==
    IF W = {} THEN {}
    ELSE LET w == CHOOSE w \in W : TRUE
         IN  (IF Contains(cs, Letras(w)) THEN {w} ELSE {}) \cup Halladas(cs, W \ {w})
\* The keywords in the text of each title and description of TD, computed
\* once.
RECURSIVE PalabrasPor(_)
PalabrasPor(TD) ==
    LET td == CHOOSE td \in TD : TRUE
        ws == td :> Halladas(Texto(td[1], td[2]), Palabras)
    IN  IF TD \ {td} = {} THEN ws ELSE ws @@ PalabrasPor(TD \ {td})
PalabrasDe == PalabrasPor(Titulos \X Descripciones)
PalabrasEn(data) == PalabrasDe[<<data.titulo, data.descripcion>>]
\* Variant: the keywords of departamento are looked for first.
DeterminePropertyTypeDeptoFirst(data) ==
    LET ws == PalabrasEn(data) IN
    IF ws \cap {"departamento", "depto", "apartamento", "flat",
                "pent-house", "penthouse"} # {}
      THEN "departamento"
    ELSE IF ws \cap {"terreno", "lote", "sitio", "parcela", "predio"} # {}
      THEN "terreno"
    ELSE IF ws \cap {"prefabricada", "modular", "container", "movil",
                     "tiny house"} # {}
      THEN "casa_prefabricada"
    ELSE IF ws \cap {"casa", "chalet", "villa", "cabana"} # {}
      THEN "casa"
    ELSE IF data.metros_cuadrados > 500 THEN "terreno"
    ELSE IF data.metros_cuadrados < 80 THEN "departamento"
    ELSE "casa"

\* determine_property_type (lines 572-596).
DeterminePropertyType(data) ==
    LET ws == PalabrasEn(data) IN
    IF ws \cap {"terreno", "lote", "sitio", "parcela", "predio"} # {}
      THEN "terreno"
    ELSE IF ws \cap {"departamento", "depto", "apartamento", "flat",
                     "pent-house", "penthouse"} # {}
      THEN "departamento"
    ELSE IF ws \cap {"prefabricada", "modular", "container", "movil",
                     "tiny house"} # {}
      THEN "casa_prefabricada"
    ELSE IF ws \cap {"casa", "chalet", "villa", "cabana"} # {}
      THEN "casa"
    ELSE IF data.metros_cuadrados > 500 THEN "terreno"
    ELSE IF data.metros_cuadrados < 80 THEN "departamento"
    ELSE "casa"

\* The storage engine rejects a price that does not fit precio's column.
ColumnOverflow(data) == data.precio >= PrecioOverflow

\* Rows of the four category tables are counted per upsert key.
RawDicts == {RawCasa, RawDepto, RawVacio, RawCaro}
Codigos == {CodigoDe(CleanPropertyData(d)) : d \in RawDicts}
    \cup {CodigoDe(d) : d \in RawDicts}
Keys == Tipos \X Codigos \X Sitios

\* --------------------------------------------------------- hybrid_extraction
\* How an HTTP request ends: with a 2xx response, with another status (a
\* response all the same), or with no response (connection error, timeout).
Fetches == {"ok", "status", "error"}

\* extract_properties_with_llm (lines 429-504): the page is requested and
\* raise_for_status called, then SmartScraperGraph.run() is called.
\* run.kind: "raise" (an exception between lines 463 and 476), "text" (a
\* str, run.valid telling whether json.loads takes it) or "object"; run.list,
\* run.items, run.truthy: the value returned or decoded, a list of items
\* or a single value that is true or false as a condition.
\* The body of the try (lines 434-500): what it raises or returns.
LlmBody(fetch, run) ==
    IF fetch # "ok" \/ run.kind = "raise"
      THEN [raised |-> TRUE, list |-> FALSE, items |-> <<>>]
    ELSE IF run.kind = "text" /\ ~run.valid
      THEN [raised |-> FALSE, list |-> TRUE, items |-> <<>>]
    ELSE IF run.list
      THEN [raised |-> FALSE, list |-> TRUE, items |-> run.items]
    ELSE [raised |-> FALSE, list |-> TRUE,
          items |-> IF run.truthy THEN run.items ELSE <<>>]
\* Variant: the handler of lines 502-504 takes no exception.
LlmReturnNoHandler(fetch, run) == LlmBody(fetch, run)
\* extract_properties_with_llm (lines 429-504), the handler included.
LlmReturn(fetch, run) ==
    IF LlmBody(fetch, run).raised
    THEN [raised |-> FALSE, list |-> TRUE, items |-> <<>>]
    ELSE LlmBody(fetch, run)
\* The list returned when the LLM's answer is, or is decoded to, the list llm.
ExtractPropertiesWithLlm(fetch, llm) ==
    LlmReturn(fetch, [kind |-> "object", valid |-> TRUE, list |-> TRUE,
                      truthy |-> llm # <<>>, items |-> llm]).items

\* Lines 542-543: the title and the price the merge compares.
PropTitle(p) == StripLetras(Lower(Letras(p.titulo)))
PropPrice(p) == p.precio

\* Lines 545-558: prop is a duplicate of a record kept so far.
IsDuplicate(prop, titles, prices) ==
    \/ /\ PropTitle(prop) # <<>>
       /\ \E title \in titles :
             /\ title # <<>>
             /\ \/ Contains(PropTitle(prop), title)
                \/ Contains(title, PropTitle(prop))
                \/ Prefix(title, 30) = Prefix(PropTitle(prop), 30)
    \/ PropPrice(prop) \in prices /\ PropPrice(prop) > 0

\* Lines 541-563: the loop over bs_properties from its k-th element on.
RECURSIVE MergeLoop(_, _, _, _, _)
MergeLoop(all, titles, prices, bs, k) ==
    IF k > Len(bs) THEN all
    ELSE IF IsDuplicate(bs[k], titles, prices)
      THEN MergeLoop(all, titles, prices, bs, k + 1)
    ELSE MergeLoop(Append(all, bs[k]), titles \cup {PropTitle(bs[k])},
                   prices \cup {PropPrice(bs[k])}, bs, k + 1)

\* hybrid_extraction (lines 507-569).  in.llm_fetch, in.fetch: how the request
\* of extract_properties_with_llm and the one of line 528 end; in.llm, in.bs:
\* what the LLM and PropertyExtractor find in the response they are given.
\* p.get(...).lower() of lines 538-539 raises for an element that is no dict
\* (or whose title is null).
\* The body of the try (lines 513-563): whether it raises, and what
\* all_properties holds when it ends.
HybridBody(in) ==
    LET all == ExtractPropertiesWithLlm(in.llm_fetch, in.llm) IN
    IF in.fetch = "error" THEN [raised |-> TRUE, value |-> all]
    ELSE IF in.bs = <<>> THEN [raised |-> FALSE, value |-> all]
    ELSE IF \E j \in 1..Len(all) : ~all[j].isdict
      THEN [raised |-> TRUE, value |-> all]
    ELSE [raised |-> FALSE,
          value |-> MergeLoop(all, {PropTitle(all[j]) : j \in 1..Len(all)},
                              {PropPrice(all[j]) : j \in 1..Len(all)}, in.bs, 1)]
\* Variant: the try has no handler.
HybridReturnNoHandler(in) == HybridBody(in)
\* Lines 565-568: the handler logs the error; all_properties is returned.
HybridReturn(in) == [raised |-> FALSE, value |-> HybridBody(in).value]

\* Variant: nothing is added to what the LLM found.
HybridExtractionLlmOnly(in) == ExtractPropertiesWithLlm(in.llm_fetch, in.llm)

\* The list hybrid_extraction returns.
HybridExtraction(in) == HybridReturn(in).value

\* ------------------------------------------------- _extract_from_container
\* An amount mant * 10^exp, the mantissa without trailing zeros.
RECURSIVE Amount(_, _)
Amount(mant, exp) ==
    IF mant = 0 THEN [mant |-> 0, exp |-> 0]
    ELSE IF mant % 10 = 0 THEN Amount(mant \div 10, exp + 1)
    ELSE [mant |-> mant, exp |-> exp]
Times(a, mant, exp) == Amount(a.mant * mant, a.exp + exp)

Digitos == <<"0", "1", "2", "3", "4", "5", "6", "7", "8", "9">>
IsDigit(c) == \E d \in 1..10 : Digitos[d] = c
DigitVal(c) == (CHOOSE d \in 1..10 : Digitos[d] = c) - 1
\* [\d.,]
InClass(c) == IsDigit(c) \/ c = "." \/ c = ","
\* The end of \s* begun at k, and of [\d.,]+ begun at k.
RECURSIVE SkipSpaces(_, _)
SkipSpaces(cs, k) ==
    IF k <= Len(cs) /\ cs[k] = " " THEN SkipSpaces(cs, k + 1) ELSE k
RECURSIVE RunEnd(_, _)
RunEnd(cs, k) ==
    IF k <= Len(cs) /\ InClass(cs[k]) THEN RunEnd(cs, k + 1) ELSE k - 1
\* cs[a - 1 : b] as a slice takes it: what there is of it.
Slice(cs, a, b) == SubSeq(cs, a, IF b > Len(cs) THEN Len(cs) ELSE b)
Leftmost(K) == CHOOSE k \in K : \A j \in K : k <= j
NoMatch == [found |-> FALSE, g0 |-> <<>>, g1 |-> <<>>]

\* re.search(r'\$\s*([\d.,]+)(?:\s*millones?)?', text, re.I) and, without
\* the optional group, re.search(r'\$\s*([\d.,]+)', text, re.I).
SearchPesos(cs, millones) ==
    LET K == {k \in 1..Len(cs) :
                /\ cs[k] = "$"
                /\ SkipSpaces(cs, k + 1) <= Len(cs)
                /\ InClass(cs[SkipSpaces(cs, k + 1)])}
    IN  IF K = {} THEN NoMatch
        ELSE LET k == Leftmost(K)
                 s == SkipSpaces(cs, k + 1)
                 e == RunEnd(cs, s)
                 m == SkipSpaces(cs, e + 1)
                 fin == IF millones
                           /\ Lower(Slice(cs, m, m + 6)) = Letras("millone")
                        THEN IF m + 7 <= Len(cs) /\ Lower(<<cs[m + 7]>>) = <<"s">>
                             THEN m + 7 ELSE m + 6
                        ELSE e
             IN  [found |-> TRUE, g0 |-> SubSeq(cs, k, fin),
                  g1 |-> SubSeq(cs, s, e)]
\* re.search(r'UF\s*([\d.,]+)', text, re.I)
SearchUF(cs) ==
    LET K == {k \in 1..Len(cs) :
                /\ Lower(Slice(cs, k, k + 1)) = Letras("uf")
                /\ SkipSpaces(cs, k + 2) <= Len(cs)
                /\ InClass(cs[SkipSpaces(cs, k + 2)])}
    IN  IF K = {} THEN NoMatch
        ELSE LET k == Leftmost(K)
                 s == SkipSpaces(cs, k + 2)
                 e == RunEnd(cs, s)
             IN  [found |-> TRUE, g0 |-> SubSeq(cs, k, e),
                  g1 |-> SubSeq(cs, s, e)]
\* re.search(r'([\d.,]+)\s*(?:UF)', text, re.I)
SearchUFAlt(cs) ==
    LET K == {k \in 1..Len(cs) :
                /\ InClass(cs[k])
                /\ Lower(Slice(cs, SkipSpaces(cs, RunEnd(cs, k) + 1),
                               SkipSpaces(cs, RunEnd(cs, k) + 1) + 1))
                   = Letras("uf")}
    IN  IF K = {} THEN NoMatch
        ELSE LET k == Leftmost(K)
                 e == RunEnd(cs, k)
             IN  [found |-> TRUE,
                  g0 |-> SubSeq(cs, k, SkipSpaces(cs, e + 1) + 1),
                  g1 |-> SubSeq(cs, k, e)]

\* The multiplier 1000000 of the first pattern, as a power of ten.
Millon == 6
\* price_patterns (lines 107-112): the search, whether the text of the
\* pattern has 'UF' in it, and the multiplier as a power of ten (Null for
\* None).
PricePatterns(cs) ==
    << [match |-> SearchPesos(cs, TRUE), uf |-> FALSE, multiplier |-> Millon],
       [match |-> SearchUF(cs), uf |-> TRUE, multiplier |-> Null],
       [match |-> SearchUFAlt(cs), uf |-> TRUE, multiplier |-> Null],
       [match |-> SearchPesos(cs, FALSE), uf |-> FALSE, multiplier |-> 0] >>

\* match.group(1).replace('.', '').replace(',', '.')
ValueStr(g1) ==
    LET sinpuntos == SelectSeq(g1, LAMBDA c : c # ".")
    IN  [k \in 1..Len(sinpuntos) |->
            IF sinpuntos[k] = "," THEN "." ELSE sinpuntos[k]]
RECURSIVE DigitsNat(_)
DigitsNat(ds) ==
    IF ds = <<>> THEN 0
    ELSE 10 * DigitsNat(SubSeq(ds, 1, Len(ds) - 1)) + DigitVal(ds[Len(ds)])
\* float(value_str): raises unless there are digits, with one point at most.
FloatRaises(vs) ==
    \/ Cardinality({k \in 1..Len(vs) : vs[k] = "."}) > 1
    \/ \A k \in 1..Len(vs) : vs[k] = "."
Float(vs) ==
    LET P == {k \in 1..Len(vs) : vs[k] = "."}
        p == IF P = {} THEN Len(vs) ELSE CHOOSE k \in P : TRUE
    IN  Amount(DigitsNat(SelectSeq(vs, LAMBDA c : c # ".")), p - Len(vs))

\* The loop over price_patterns (lines 114-131), from pattern k on.
RECURSIVE PriceLoop(_, _, _)
PriceLoop(cs, data, k) ==
    IF k > 4 THEN data
    ELSE LET pat == PricePatterns(cs)[k]
             vs == ValueStr(pat.match.g1)
             value == Float(vs)
         IN  IF ~pat.match.found \/ FloatRaises(vs) THEN PriceLoop(cs, data, k + 1)
             ELSE IF pat.uf
               THEN [data EXCEPT !.precio_uf = value,
                                 !.precio = Times(value, 37, 3)]
             ELSE IF pat.multiplier # Null
                     /\ Contains(Lower(pat.match.g0), Letras("millones"))
               THEN [data EXCEPT !.precio = Times(value, 1, pat.multiplier)]
             ELSE [data EXCEPT !.precio =
                      Times(value, 1, IF pat.multiplier # Null
                                      THEN pat.multiplier ELSE 0)]
\* The price part of _extract_from_container on the text of a container.
ExtractPrice(t) ==
    PriceLoop(Letras(t), [precio |-> Amount(0, 0), precio_uf |-> Null], 1)

\* -------------------------------------------------------------------- state
VARIABLES
    now,          \* the clock (timezone.now()), in hours
    url,          \* URLToScrape rows, by id
    nlogs,        \* ScrapingLog rows created so far
    tabla,        \* rows of the category tables, counted per (table, code, site)
    queue,        \* scrape_url_task messages the broker holds (a bag)
    cliTodo,      \* sources the run_scraping command has still to scrape (--sync)
    ex,           \* the invocations in flight: one per worker, one for the command
    printed,      \* the result the run_scraping command wrote last
    pure          \* a function of tasks.py applied on its own: argument, result

vars == <<now, url, nlogs, tabla, queue, cliTodo, ex, printed, pure>>

\* A URLToScrape row as the model fields give it at creation.
NewUrl == [status |-> "pending", is_active |-> TRUE,
           scrape_frequency_hours |-> FreqHours,
           last_scraped_at |-> Null, next_scrape_at |-> Null,
           total_scrapes |-> 0, successful_scrapes |-> 0, failed_scrapes |-> 0]

\* ScrapingLog.objects.create(url_scrape=url_obj, status='started')
NewLog(s) == [url_scrape |-> s, status |-> "started", properties_found |-> 0,
              properties_created |-> 0, properties_updated |-> 0,
              properties_failed |-> 0]

NoSummary == [status |-> "none", found |-> 0, created |-> 0, updated |-> 0,
              failed |-> 0]

\* An executor that runs nothing.  attempt: the executions of the dispatch so
\* far, this one included; db_error: a save of the source raised.  When the
\* invocation has ended (pc "done"), outcome tells how: "success" and
\* "failed" returned the summary, "retry" sent the retry and raised Retry,
\* "raised" let an error leave the task.
Idle == [pc |-> "idle", retries |-> 0, attempt |-> 0, direct |-> FALSE,
         url_id |-> 0, url_obj |-> NewUrl, scraping_log |-> NewLog(0),
         properties_data |-> <<>>, i |-> 0,
         created_count |-> 0, updated_count |-> 0, failed_count |-> 0,
         db_error |-> FALSE, outcome |-> "none", summary |-> NoSummary,
         countdown |-> 0]

\* Nothing written yet.  page and rows are kept beside the result: what the
\* page held, and the rows the category tables held when the call ended.
NoPrint == [url_id |-> 0, page |-> <<>>, outcome |-> "none", summary |-> NoSummary,
            rows |-> 0]

RECURSIVE RowsIn(_)
RowsIn(K) ==
    IF K = {} THEN 0
    ELSE LET k == CHOOSE k \in K : TRUE IN tabla[k] + RowsIn(K \ {k})

\* No function is applied on its own.
NoCall == [fn |-> "none", arg |-> <<>>, res |-> <<>>, raised |-> FALSE,
           done |-> TRUE]

\* The database and the broker before anything ran.
Empty ==
    /\ now = 0
    /\ url = [s \in Src |-> NewUrl]
    /\ nlogs = 0
    /\ tabla = [k \in Keys |-> 0]
    /\ queue = EmptyBag
    /\ cliTodo = <<>>
    /\ ex = [e \in Execs |-> Idle]
    /\ printed = NoPrint

Init == Empty /\ pure = NoCall

\* ---------------------------------------------------------------- dispatch
\* A queryset is iterated in Meta.ordering: ('-priority', '-created_at'), the
\* later created source first for sources of one priority.
RECURSIVE Ordered(_)
Ordered(S) ==
    IF S = {} THEN <<>>
    ELSE LET m == CHOOSE x \in S : \A y \in S : y <= x
         IN  <<m>> \o Ordered(S \ {m})

\* The message of scrape_url_task.delay(id).
Fresh(s) == [url_id |-> s, retries |-> 0, attempt |-> 0, countdown |-> 0]

\* scrape_url_task.delay(id) for each source of S.
Delay(S) ==
    /\ S # {}
    /\ BagCardinality(queue) < MaxQueue
    /\ queue' = queue (+) SetToBag({Fresh(s) : s \in S})
    /\ UNCHANGED <<now, url, nlogs, tabla, cliTodo, ex, printed, pure>>

\* The run_scraping command calling scrape_url_task(id) itself, one source
\* after the other.
CallSync(S) ==
    /\ S # {}
    /\ cliTodo = <<>>
    /\ ex[Cli].pc = "idle"
    /\ cliTodo' = Ordered(S)
    /\ UNCHANGED <<now, url, nlogs, tabla, queue, ex, printed, pure>>

\* Variant: the status of the source is not looked at.
DueWhateverStatus(u) ==
    /\ u.is_active
    /\ (u.next_scrape_at = Null \/ u.next_scrape_at <= now)

\* The filter of scrape_pending_urls (lines 985-989).
Due(u) ==
    /\ u.is_active
    /\ (u.next_scrape_at = Null \/ u.next_scrape_at <= now)
    /\ u.status # "in_progress"
Pending(u) == u.is_active /\ u.status \in {"pending", "failed"}

\* tasks.scrape_pending_urls (Celery beat, and run_scraping --all-pending).
ScrapePendingUrls == Delay({s \in Src : Due(url[s])})

\* URLToScrapeViewSet.scrape_now
ScrapeNow(s) == url[s].is_active /\ Delay({s})

\* URLToScrapeViewSet.scrape_all_pending
ScrapeAllPending == Delay({s \in Src : Pending(url[s])})

\* run_scraping --url-id
CmdUrlId(s) == Delay({s})
CmdUrlIdSync(s) == CallSync({s})
\* run_scraping --all-pending --sync
CmdAllPendingSync == CallSync({s \in Src : Pending(url[s])})
\* run_scraping --site
CmdSite(site) == Delay({s \in Src : SiteName(s) = site /\ url[s].is_active})
CmdSiteSync(site) == CallSync({s \in Src : SiteName(s) = site /\ url[s].is_active})

Tick ==
    /\ now < MaxNow
    /\ now' = now + 1
    /\ UNCHANGED <<url, nlogs, tabla, queue, cliTodo, ex, printed, pure>>

\* --------------------------------------------------------- scrape_url_task
\* Lines 841-857: load the source, create the log, save the source in_progress.
Start(e, s, r, a, d, limit) ==
    /\ nlogs < limit
    /\ nlogs' = nlogs + 1
    /\ url' = [url EXCEPT ![s].status = "in_progress"]
    /\ ex' = [ex EXCEPT ![e] =
                [Idle EXCEPT !.pc = "extract", !.retries = r, !.attempt = a + 1,
                             !.direct = d, !.url_id = s,
                             !.url_obj = [url[s] EXCEPT !.status = "in_progress"],
                             !.scraping_log = NewLog(s)]]

\* A worker takes a message of the broker.
Begin(w, limit) ==
    /\ ex[w].pc = "idle"
    /\ \E m \in BagToSet(queue) :
         /\ Start(w, m.url_id, m.retries, m.attempt, FALSE, limit)
         /\ queue' = queue (-) SetToBag({m})
    /\ UNCHANGED <<now, tabla, cliTodo, printed, pure>>

\* The command calls the task function for its next source.
CliBegin ==
    /\ ex[Cli].pc = "idle"
    /\ cliTodo # <<>>
    /\ Start(Cli, Head(cliTodo), 0, 0, TRUE, MaxCalls)
    /\ cliTodo' = Tail(cliTodo)
    /\ UNCHANGED <<now, tabla, queue, printed, pure>>

\* Variant: an empty list of candidates is processed like any other.
ExtractEmptyGoesOn(e) ==
    /\ ex[e].pc = "extract"
    /\ \E page \in PagesOf(ex[e].url_id) :
         ex' = [ex EXCEPT ![e].properties_data = page,
                          ![e].i = 1,
                          ![e].pc = IF page = <<>> THEN "finalize" ELSE "loop"]
    /\ UNCHANGED <<now, url, nlogs, tabla, queue, cliTodo, printed, pure>>

\* Lines 865-875: hybrid_extraction never raises and returns a list; an empty
\* one raises in the task.
Extract(e) ==
    /\ ex[e].pc = "extract"
    /\ \E page \in PagesOf(ex[e].url_id) :
         ex' = [ex EXCEPT ![e].properties_data = page,
                          ![e].i = 1,
                          ![e].pc = IF page = <<>> THEN "errlog" ELSE "loop"]
    /\ UNCHANGED <<now, url, nlogs, tabla, queue, cliTodo, printed, pure>>

\* What the two extractors of hybrid_extraction may find on a page of the
\* modelled sources: nothing when their request fails.
RunInputs ==
    {in \in [llm_fetch : {"ok", "status"}, llm : {<<>>, <<RawTexto, RawCasa>>},
             fetch : {"ok", "error"},
             bs : {<<>>, <<RawCaro>>, <<RawDepto, RawDepto, RawCasa>>}] :
        /\ in.llm_fetch # "ok" => in.llm = <<>>
        /\ in.fetch = "error" => in.bs = <<>>}
\* Lines 865-875 with the call of hybrid_extraction spelled out: pure records
\* what the extractors found and what the call returned.
ExtractHybrid(e) ==
    /\ ex[e].pc = "extract"
    /\ \E in \in RunInputs :
         LET page == HybridExtraction(in)
         IN  /\ pure' = [NoCall EXCEPT !.fn = "hybrid_extraction", !.arg = in,
                                       !.res = page]
             /\ ex' = [ex EXCEPT ![e].properties_data = page,
                                 ![e].i = 1,
                                 ![e].pc = IF page = <<>> THEN "errlog"
                                           ELSE "loop"]
    /\ UNCHANGED <<now, url, nlogs, tabla, queue, cliTodo, printed>>

\* Line 880: the candidate as the loop cleans it; line 707: as
\* create_or_update_property cleans it again.
Prop(x) == CleanPropertyData(x.properties_data[x.i])
StoreData(x) == CleanPropertyData(Prop(x))
\* The lookup of update_or_create: table, codigo_propiedad, sitio_origen.
KeyOf(x) == <<DeterminePropertyType(Prop(x)), CodigoDe(StoreData(x)),
              SiteName(x.url_id)>>

\* Variant: objects.create in place of update_or_create.
RecordOutcomeCreate(x, n) ==
    IF CleanRaises(x.properties_data[x.i]) THEN "failed_count"
    ELSE IF SinDatos(Prop(x)) THEN "failed_count"
    ELSE IF SinDatos(StoreData(x)) THEN "failed_count"
    ELSE "insert"

\* Lines 877-909 and 703-833 for one candidate, up to the lookup of
\* update_or_create: the counter the candidate ends in, or "insert" when the
\* lookup found no row and the row is still to be created.  n: the rows the
\* lookup matches.
RecordOutcome(x, n) ==
    IF CleanRaises(x.properties_data[x.i]) THEN "failed_count"
    ELSE IF SinDatos(Prop(x)) THEN "failed_count"
    ELSE IF SinDatos(StoreData(x)) THEN "failed_count"
    ELSE IF n >= 2 THEN "failed_count"
    ELSE IF n = 1 THEN (IF ColumnOverflow(StoreData(x)) THEN "failed_count"
                        ELSE "updated_count")
    ELSE "insert"

\* The create of update_or_create, after a lookup that found no row.
InsertOutcome(x) ==
    IF ColumnOverflow(StoreData(x)) THEN "failed_count" ELSE "created_count"

\* Variant: a candidate that fails ends the loop and fails the run.
CountedFailureAborts(x, c) ==
    [x EXCEPT ![c] = @ + 1,
              !.i = @ + 1,
              !.pc = IF c = "failed_count" THEN "errlog"
                     ELSE IF x.i >= Len(x.properties_data) THEN "finalize"
                     ELSE "loop"]

\* Variant: the candidate that fails is skipped without being counted.
CountedFailedSkipped(x, c) ==
    [x EXCEPT ![c] = IF c = "failed_count" THEN @ ELSE @ + 1,
              !.i = @ + 1,
              !.pc = IF x.i >= Len(x.properties_data) THEN "finalize" ELSE "loop"]

\* The candidate is counted under c; the loop goes on or ends.
Counted(x, c) ==
    [x EXCEPT ![c] = @ + 1,
              !.i = @ + 1,
              !.pc = IF x.i >= Len(x.properties_data) THEN "finalize" ELSE "loop"]

ProcessRecord(e) ==
    /\ ex[e].pc = "loop"
    /\ LET x == ex[e]
           o == RecordOutcome(x, IF CleanRaises(x.properties_data[x.i]) THEN 0
                                 ELSE tabla[KeyOf(x)])
       IN  ex' = [ex EXCEPT ![e] = IF o = "insert" THEN [x EXCEPT !.pc = "insert"]
                                   ELSE Counted(x, o)]
    /\ UNCHANGED <<now, url, nlogs, tabla, queue, cliTodo, printed, pure>>

InsertRow(e) ==
    /\ ex[e].pc = "insert"
    /\ LET x == ex[e]
           o == InsertOutcome(x)
       IN  /\ ex' = [ex EXCEPT ![e] = Counted(x, o)]
           /\ tabla' = IF o = "created_count"
                       THEN [tabla EXCEPT ![KeyOf(x)] = @ + 1]
                       ELSE tabla
    /\ UNCHANGED <<now, url, nlogs, queue, cliTodo, printed, pure>>

\* Lines 911-925: the log is saved completed or partial, with the counts.
FinalLog(x) ==
    [x.scraping_log EXCEPT
        !.status = IF x.failed_count = 0 THEN "completed" ELSE "partial",
        !.properties_found = Len(x.properties_data),
        !.properties_created = x.created_count,
        !.properties_updated = x.updated_count,
        !.properties_failed = x.failed_count]

FinalizeLog(e) ==
    /\ ex[e].pc = "finalize"
    /\ ex' = [ex EXCEPT ![e].scraping_log = FinalLog(ex[e]), ![e].pc = "mark"]
    /\ UNCHANGED <<now, url, nlogs, tabla, queue, cliTodo, printed, pure>>

\* The clock at a later reading: it has not gone back, and may have advanced
\* (up to the hour the model stops the clock at).
Later(t, stop) == IF t < stop THEN {t, t + 1} ELSE {t}

\* Variant: next_scrape_at is recomputed for a successful scrape only.
MarkAsScrapedNextOnSuccess(u, success, t1, t2) ==
    [u EXCEPT !.last_scraped_at = t1,
              !.total_scrapes = @ + 1,
              !.successful_scrapes = IF success THEN @ + 1 ELSE @,
              !.failed_scrapes = IF success THEN @ ELSE @ + 1,
              !.status = IF success THEN "completed" ELSE "failed",
              !.next_scrape_at = IF success THEN t2 + u.scrape_frequency_hours
                                 ELSE @]

\* Variant: a failed scrape is not counted in total_scrapes.
MarkAsScrapedNoTotalOnFailure(u, success, t1, t2) ==
    [u EXCEPT !.last_scraped_at = t1,
              !.total_scrapes = IF success THEN @ + 1 ELSE @,
              !.successful_scrapes = IF success THEN @ + 1 ELSE @,
              !.failed_scrapes = IF success THEN @ ELSE @ + 1,
              !.status = IF success THEN "completed" ELSE "failed",
              !.next_scrape_at = t2 + u.scrape_frequency_hours]

\* URLToScrape.mark_as_scraped on the task's copy of the source.  The clock is
\* read twice: t1 at line 60, t2 at line 73.
MarkAsScraped(u, success, t1, t2) ==
    [u EXCEPT !.last_scraped_at = t1,
              !.total_scrapes = @ + 1,
              !.successful_scrapes = IF success THEN @ + 1 ELSE @,
              !.failed_scrapes = IF success THEN @ ELSE @ + 1,
              !.status = IF success THEN "completed" ELSE "failed",
              !.next_scrape_at = t2 + u.scrape_frequency_hours]

\* The summary of lines 940-949.
Summary(x) == [status |-> "success", found |-> Len(x.properties_data),
               created |-> x.created_count, updated |-> x.updated_count,
               failed |-> x.failed_count]

\* The invocation x has ended.
Ended(x, out, summary, countdown) ==
    [x EXCEPT !.pc = "done", !.outcome = out, !.summary = summary,
              !.countdown = countdown]

\* Lines 927-949: the source is marked and the summary returned; when the
\* save of mark_as_scraped raises, the copy is changed, the row is not, and
\* the handler of line 951 runs.
MarkSuccess(e, stop) ==
    /\ ex[e].pc = "mark"
    /\ \E t2 \in Later(now, stop), saves \in BOOLEAN :
         LET x == ex[e]
             marked == MarkAsScraped(x.url_obj,
                                     x.created_count + x.updated_count > 0, now, t2)
         IN  /\ now' = t2
             /\ IF saves
                THEN /\ url' = [url EXCEPT ![x.url_id] = marked]
                     /\ ex' = [ex EXCEPT ![e] =
                          Ended([x EXCEPT !.url_obj = marked],
                                "success", Summary(x), 0)]
                ELSE /\ ex' = [ex EXCEPT ![e].url_obj = marked, ![e].pc = "errlog",
                                         ![e].db_error = TRUE]
                     /\ UNCHANGED url
    /\ UNCHANGED <<nlogs, tabla, queue, cliTodo, printed, pure>>

\* Lines 951-959: the handler saves the log failed.
ErrorLog(e) ==
    /\ ex[e].pc = "errlog"
    /\ ex' = [ex EXCEPT ![e].scraping_log.status = "failed", ![e].pc = "errmark"]
    /\ UNCHANGED <<now, url, nlogs, tabla, queue, cliTodo, printed, pure>>

\* Variants: max_retries taken as the number of executions; one retry too many.
RetryAllowedOneLess(retries) == retries + 1 < max_retries
RetryAllowedOneMore(retries) == retries <= max_retries
\* Line 965.
RetryAllowed(retries) == retries < max_retries
\* Variant: the same delay before every retry.
CountdownFlat(retries) == RetryBaseSeconds
\* Line 967.
Countdown(retries) == RetryBaseSeconds * (retries + 1)
\* The message Task.retry sends: the same task, one retry more.
RetryMsg(x) == [url_id |-> x.url_id, retries |-> x.retries + 1,
                attempt |-> x.attempt, countdown |-> Countdown(x.retries)]

\* Lines 961-974: the source is marked failed; then a retry is sent and
\* raised (Task.retry raises the error itself when the task was called as a
\* function), or the failed summary is returned.  When the save of
\* mark_as_scraped raises, the error leaves the task.
ErrorOutcome(x) ==
    IF ~RetryAllowed(x.retries) THEN "failed"
    ELSE IF x.direct THEN "raised" ELSE "retry"

ErrorMark(e, stop) ==
    /\ ex[e].pc = "errmark"
    /\ \E t2 \in Later(now, stop), saves \in BOOLEAN :
         LET x == ex[e]
             marked == MarkAsScraped(x.url_obj, FALSE, now, t2)
             out == ErrorOutcome(x)
         IN  /\ now' = t2
             /\ IF saves
                THEN /\ url' = [url EXCEPT ![x.url_id] = marked]
                     /\ ex' = [ex EXCEPT ![e] =
                          Ended([x EXCEPT !.url_obj = marked], out,
                                IF out = "failed"
                                THEN [NoSummary EXCEPT !.status = "failed"]
                                ELSE NoSummary,
                                IF out = "retry" THEN Countdown(x.retries) ELSE 0)]
                     /\ queue' = IF out = "retry"
                                 THEN queue (+) SetToBag({RetryMsg(x)})
                                 ELSE queue
                ELSE /\ ex' = [ex EXCEPT ![e] =
                          Ended([x EXCEPT !.db_error = TRUE, !.url_obj = marked],
                                "raised", NoSummary, 0)]
                     /\ UNCHANGED <<url, queue>>
    /\ UNCHANGED <<nlogs, tabla, cliTodo, printed, pure>>

\* The invocation is over: the worker is free again; the command writes what
\* the call returned (run_scraping.py lines 54, 78, 104) or the error.
Release(e) ==
    /\ ex[e].pc = "done"
    /\ ex' = [ex EXCEPT ![e] = Idle]
    /\ printed' = IF e = Cli
                  THEN [url_id |-> ex[e].url_id, page |-> ex[e].properties_data,
                        outcome |-> ex[e].outcome, summary |-> ex[e].summary,
                        rows |-> RowsIn(Keys)]
                  ELSE printed
    /\ UNCHANGED <<now, url, nlogs, tabla, queue, cliTodo, pure>>

\* ------------------------------------------------------------- maintenance
\* The sources the filter of lines 1028-1032 (manage_db.py 137-141) selects.
ToDeactivate ==
    {s \in Src : /\ url[s].is_active
                 /\ url[s].failed_scrapes >= FailedThreshold
                 /\ url[s].successful_scrapes = 0}

\* tasks.deactivate_failed_urls: update(is_active=False, status='disabled').
DeactivateFailedUrls ==
    /\ url' = [s \in Src |->
                 IF s \in ToDeactivate
                 THEN [url[s] EXCEPT !.is_active = FALSE, !.status = "disabled"]
                 ELSE url[s]]
    /\ UNCHANGED <<now, nlogs, tabla, queue, cliTodo, ex, printed, pure>>

\* manage_db's deactivate_failed_urls: update(is_active=False).
ManageDbDeactivate ==
    /\ url' = [s \in Src |->
                 IF s \in ToDeactivate THEN [url[s] EXCEPT !.is_active = FALSE]
                 ELSE url[s]]
    /\ UNCHANGED <<now, nlogs, tabla, queue, cliTodo, ex, printed, pure>>

\* A source after failed + successful runs, the last of them a failed one in
\* hour 0; active, or switched off in the admin (admin.py line 70).
Scraped(failed, successful, active) ==
    [NewUrl EXCEPT !.status = "failed", !.is_active = active,
                   !.last_scraped_at = 0, !.next_scrape_at = FreqHours,
                   !.total_scrapes = failed + successful,
                   !.successful_scrapes = successful,
                   !.failed_scrapes = failed]
\* The database when the maintenance tasks come to run: sources that are
\* new, or near the threshold on either side of it.
InitAdm ==
    /\ now = FreqHours
    /\ url \in [Src -> {NewUrl, Scraped(FailedThreshold + 1, 0, FALSE)}
                        \cup {Scraped(f, n, TRUE) :
                                f \in {FailedThreshold - 1, FailedThreshold,
                                       FailedThreshold + 1},
                                n \in {0, 1}}]
    /\ nlogs = 0
    /\ tabla = [k \in Keys |-> 0]
    /\ queue = EmptyBag
    /\ cliTodo = <<>>
    /\ ex = [e \in Execs |-> Idle]
    /\ printed = NoPrint
    /\ pure = NoCall

\* ------------------------------------------------- functions on their own
\* A record with a title and a price.
Aviso(titulo, precio) ==
    [isdict |-> TRUE, titulo |-> titulo, descripcion |-> "", precio |-> precio,
     comuna |-> "", codigo_propiedad |-> "", metros_cuadrados |-> 0]

\* Lists the LLM's answer may be parsed to.
LlmLists ==
    { <<>>,
      <<Aviso("Casa 3 dormitorios Las Condes", 250)>>,
      <<Aviso("Casa 3 dormitorios Las Condes", 250),
        Aviso("Departamento nuevo en Providencia con terraza", 300)>>,
      <<Aviso("Las Condes", 100), Aviso("", 0)>>,
      <<RawTexto, Aviso("Casa 3 dormitorios Las Condes", 250)>> }

\* Records PropertyExtractor may find, and the lists of them.
BsAvisos ==
    { Aviso("Casa 3 dorm Las Condes", 250),
      Aviso("Casa 3 dorm Las Condes", 0),
      Aviso(" CASA 3 DORMITORIOS LAS CONDES ", 260),
      Aviso("Las Condes", 0),
      Aviso("Departamento nuevo en Providencia sin terraza", 310),
      Aviso("Terreno en Colina", 90),
      Aviso("Casa en Providencia", 90),
      Aviso("", 0) }
BsLists == {<<>>} \cup {<<a>> : a \in BsAvisos}
                 \cup {<<a, b>> : a \in BsAvisos, b \in BsAvisos}

HybridInputs ==
    [llm_fetch : Fetches, llm : LlmLists, fetch : Fetches, bs : BsLists]

\* Cleaned records determine_property_type may be given.
Metros == {0, 79, 80, 500, 501}
TypeInputs ==
    { [Aviso(t, 100) EXCEPT !.descripcion = d, !.metros_cuadrados = m] :
        t \in {"Departamento en parcela de agrado", "Departamento amplio",
               "Casa prefabricada", "Casa en Providencia", "Propiedad en venta",
               "Terreno en Colina", "Sin titulo"},
        d \in Descripciones, m \in Metros }

\* create_or_update_property (lines 703-833): the fields written.
\* data.get(f, default)
Get(data, f, default) == IF f \in DOMAIN data THEN data[f] ELSE default
\* The defaults of some of the fields of each category (lines 752-816).
SpecificDefaults(property_type) ==
    CASE property_type = "casa" ->
           [tipo_casa |-> "independiente", tiene_piscina |-> FALSE]
      [] property_type = "departamento" ->
           [amoblado |-> FALSE, tiene_terraza |-> FALSE]
      [] property_type = "terreno" ->
           [tipo_terreno |-> "urbano", tiene_agua |-> FALSE]
      [] property_type = "casa_prefabricada" ->
           [material_principal |-> "madera", es_transportable |-> TRUE]
\* Lines 722-747 and 752-816: common_data and specific_data, read from the
\* data that clean_property_data returned (line 706).
CommonData(data) ==
    [titulo |-> data.titulo, descripcion |-> data.descripcion,
     precio |-> data.precio, comuna |-> data.comuna,
     metros_cuadrados |-> data.metros_cuadrados,
     codigo_propiedad |-> CodigoDe(data)]
SpecificData(data, property_type) ==
    [f \in DOMAIN SpecificDefaults(property_type) |->
        Get(data, f, SpecificDefaults(property_type)[f])]
\* The defaults of update_or_create for a candidate of the loop of
\* scrape_url_task (lines 880, 889, 892).
UpsertDefaults(raw) ==
    LET prop == CleanPropertyData(raw)
        data == CleanPropertyData(prop)
    IN  CommonData(data) @@ SpecificData(data, DeterminePropertyType(prop))
\* update_or_create: the defaults are set on the row found, or on a new one.
UpdateOrCreate(old, defaults) == defaults @@ old
\* Candidates with fields of their category, and the row each may find in
\* the table of its category: none (a new row), or the row of the same code
\* that an earlier candidate left.
StoreRaws ==
    {RawCasa, RawDepto,
     RawCasa @@ [tiene_piscina |-> TRUE, tipo_casa |-> "pareada"],
     RawDepto @@ [amoblado |-> TRUE],
     [codigo_propiedad |-> "MLC-3", tiene_agua |-> TRUE, tipo_terreno |-> "rural"]
        @@ Aviso("Terreno en Colina", 90),
     [codigo_propiedad |-> "MLC-4", material_principal |-> "acero"]
        @@ Aviso("Casa prefabricada", 30)}
StoreInputs ==
    {in \in {[old |-> o, data |-> d] :
               o \in {[id |-> 1]}
                     \cup {UpdateOrCreate([id |-> 1], UpsertDefaults(r)) :
                              r \in StoreRaws},
               d \in StoreRaws} :
        \/ in.old = [id |-> 1]
        \/ /\ DOMAIN in.old = DOMAIN UpsertDefaults(in.data) \cup {"id"}
           /\ in.old.codigo_propiedad = UpsertDefaults(in.data).codigo_propiedad}

\* Texts of containers _extract_from_container may be given.
PriceTexts ==
    {"Casa $120.000.000 venta", "Depto UF 4.200", "$150 millones",
     "$ 95.000.000", "Terreno 3.500 UF", "$1,5 millones",
     "Precio $ . consultar", "sin precio", "uf 100 o $3.700.000",
     "$200 Millones", "$300 millon", "$1,2,3"}

\* What SmartScraperGraph.run() may do.
LlmRuns ==
    {[kind |-> k, valid |-> v, list |-> l, truthy |-> t, items |-> i] :
        k \in {"raise", "text", "object"}, v \in BOOLEAN, l \in BOOLEAN,
        t \in BOOLEAN,
        i \in {<<>>, <<Aviso("Casa 3 dormitorios Las Condes", 250)>>,
               <<RawTexto, Aviso("Las Condes", 100)>>}}
LlmInputs ==
    {in \in [fetch : Fetches, run : LlmRuns] :
        /\ in.run.kind = "raise" => in.run.items = <<>> /\ ~in.run.list
        /\ in.run.kind # "text" => in.run.valid
        /\ ~in.run.valid => in.run.items = <<>> /\ ~in.run.list
        /\ in.run.list => in.run.truthy = (in.run.items # <<>>)
        /\ ~in.run.list /\ in.run.valid /\ in.run.kind # "raise"
           => Len(in.run.items) = 1
        /\ ~in.run.valid \/ in.run.kind = "raise" => ~in.run.truthy}

\* One of the functions is about to be applied to one of its arguments.
InitPure ==
    /\ Empty
    /\ pure \in {[NoCall EXCEPT !.fn = "hybrid_extraction", !.arg = in,
                                !.done = FALSE] : in \in HybridInputs}
          \cup {[NoCall EXCEPT !.fn = "determine_property_type", !.arg = data,
                                !.done = FALSE] : data \in TypeInputs}
          \cup {[NoCall EXCEPT !.fn = "extract_properties_with_llm", !.arg = in,
                                !.done = FALSE] : in \in LlmInputs}
          \cup {[NoCall EXCEPT !.fn = "create_or_update_property", !.arg = in,
                                !.done = FALSE] : in \in StoreInputs}
          \cup {[NoCall EXCEPT !.fn = "extract_price", !.arg = t,
                                !.done = FALSE] : t \in PriceTexts}

ApplyHybridExtraction ==
    /\ pure.fn = "hybrid_extraction" /\ ~pure.done
    /\ pure' = [pure EXCEPT !.res = HybridExtraction(pure.arg),
                            !.raised = HybridReturn(pure.arg).raised,
                            !.done = TRUE]
    /\ UNCHANGED <<now, url, nlogs, tabla, queue, cliTodo, ex, printed>>

ApplyDeterminePropertyType ==
    /\ pure.fn = "determine_property_type" /\ ~pure.done
    /\ pure' = [pure EXCEPT !.res = DeterminePropertyType(pure.arg), !.done = TRUE]
    /\ UNCHANGED <<now, url, nlogs, tabla, queue, cliTodo, ex, printed>>

ApplyExtractPropertiesWithLlm ==
    /\ pure.fn = "extract_properties_with_llm" /\ ~pure.done
    /\ pure' = [pure EXCEPT !.res = LlmReturn(pure.arg.fetch, pure.arg.run),
                            !.done = TRUE]
    /\ UNCHANGED <<now, url, nlogs, tabla, queue, cliTodo, ex, printed>>

ApplyCreateOrUpdateProperty ==
    /\ pure.fn = "create_or_update_property" /\ ~pure.done
    /\ pure' = [pure EXCEPT !.res = UpdateOrCreate(pure.arg.old,
                                                   UpsertDefaults(pure.arg.data)),
                            !.done = TRUE]
    /\ UNCHANGED <<now, url, nlogs, tabla, queue, cliTodo, ex, printed>>

ApplyExtractPrice ==
    /\ pure.fn = "extract_price" /\ ~pure.done
    /\ pure' = [pure EXCEPT !.res = ExtractPrice(pure.arg), !.done = TRUE]
    /\ UNCHANGED <<now, url, nlogs, tabla, queue, cliTodo, ex, printed>>

\* ------------------------------------------------------------- specification
\* What the API, the command and Celery beat send.
Dispatch ==
    \/ ScrapePendingUrls
    \/ ScrapeAllPending
    \/ \E s \in Src : ScrapeNow(s)
    \/ \E s \in Src : CmdUrlId(s)
    \/ \E site \in Sitios : CmdSite(site)

\* One invocation of scrape_url_task by executor e, after its start.
Run(e, stop) ==
    \/ Extract(e)
    \/ ProcessRecord(e)
    \/ InsertRow(e)
    \/ FinalizeLog(e)
    \/ MarkSuccess(e, stop)
    \/ ErrorLog(e)
    \/ ErrorMark(e, stop)
    \/ Release(e)

\* The deployment with a pool of workers, the clock standing still.
Next ==
    \/ Dispatch
    \/ \E w \in Workers : Begin(w, MaxPoolLogs)
    \/ \E w \in Workers : Run(w, 0)

Spec == Init /\ [][Next]_vars

\* The deployment with one worker.
NextOne ==
    \/ Tick
    \/ Dispatch
    \/ Begin("w1", MaxLogs)
    \/ Run("w1", MaxNow)

SpecOne == Init /\ [][NextOne]_vars

\* run_scraping --sync alone: one invocation after the other, in the
\* command's process.
NextSeq ==
    \/ Tick
    \/ CmdAllPendingSync
    \/ \E s \in Src : CmdUrlIdSync(s)
    \/ \E site \in Sitios : CmdSiteSync(site)
    \/ CliBegin
    \/ Run(Cli, MaxNow)

SpecSeq == Init /\ [][NextSeq]_vars

\* Celery beat with one worker: scrape_pending_urls and
\* deactivate_failed_urls, and the manage_db command.
NextAdm ==
    \/ ScrapePendingUrls
    \/ Begin("w1", MaxAdmLogs)
    \/ Run("w1", 0)
    \/ DeactivateFailedUrls
    \/ ManageDbDeactivate

SpecAdm == InitAdm /\ [][NextAdm]_vars

\* run_scraping --url-id --sync alone, the extraction spelled out.
NextHyb ==
    \/ \E s \in Src : CmdUrlIdSync(s)
    \/ CliBegin
    \/ ExtractHybrid(Cli)
    \/ ProcessRecord(Cli)
    \/ InsertRow(Cli)
    \/ FinalizeLog(Cli)
    \/ MarkSuccess(Cli, 0)
    \/ ErrorLog(Cli)
    \/ ErrorMark(Cli, 0)
    \/ Release(Cli)

SpecHyb == Init /\ [][NextHyb]_vars

\* hybrid_extraction and determine_property_type applied on their own.
NextPure ==
    \/ ApplyHybridExtraction
    \/ ApplyDeterminePropertyType
    \/ ApplyExtractPrice
    \/ ApplyCreateOrUpdateProperty
    \/ ApplyExtractPropertiesWithLlm

SpecPure == InitPure /\ [][NextPure]_vars

\* ------------------------------------------------------------------ claims
Terminal == {"completed", "partial", "failed"}
Over(e) == ex[e].pc = "done"
Running(e) == ex[e].pc \notin {"idle", "done"}

\* C1: the log of an invocation is written to a terminal status once: when
\* it holds completed, partial or failed it is not written again as long as
\* the invocation lasts, and no invocation ends with its log still started.
C1_LogFinalizedOnce ==
    /\ [][\A e \in Execs :
            (ex[e].scraping_log.status \in Terminal /\ ex'[e].pc # "idle")
            => ex'[e].scraping_log.status = ex[e].scraping_log.status]_vars
    /\ [](\A e \in Execs : Over(e) => ex[e].scraping_log.status \in Terminal)

\* C2: in every finalized log and in every summary returned, created +
\* updated + failed is the number of candidates found.
C2_CountsAddUp ==
    \A e \in Execs :
       /\ ex[e].scraping_log.status \in Terminal
          => ex[e].scraping_log.properties_created
             + ex[e].scraping_log.properties_updated
             + ex[e].scraping_log.properties_failed
             = ex[e].scraping_log.properties_found
       /\ (Over(e) /\ ex[e].outcome = "success")
          => /\ ex[e].summary.created + ex[e].summary.updated + ex[e].summary.failed
                = ex[e].summary.found
             /\ ex[e].summary.found = Len(ex[e].properties_data)

\* A run that counted candidates under each of the three counters.
C2_Witness ==
    \E e \in Execs :
       /\ Over(e) /\ ex[e].outcome = "success"
       /\ ex[e].scraping_log.status = "partial"
       /\ ex[e].summary.created > 0
       /\ ex[e].summary.updated > 0
       /\ ex[e].summary.failed > 0

\* The command's call that has just returned repeats the call before it:
\* the same source, the same candidates, both returned a summary.
Repeats ==
    /\ Over(Cli) /\ ex[Cli].outcome = "success"
    /\ printed.outcome = "success"
    /\ printed.url_id = ex[Cli].url_id
    /\ printed.page = ex[Cli].properties_data

\* C3: a run that repeats the run before it on the same source with the same
\* candidates creates nothing, updates as many records as the first run
\* stored, and leaves the number of rows of the tables as it was.
C3_Idempotent ==
    Repeats =>
       /\ ex[Cli].summary.created = 0
       /\ ex[Cli].summary.updated = printed.summary.created + printed.summary.updated
       /\ RowsIn(Keys) = printed.rows

\* The second of two runs of source 1, whose page lists a record with an
\* extracted code and one whose code is derived; the first run created both.
C3_Witness ==
    /\ Repeats
    /\ ex[Cli].url_id = 1
    /\ printed.summary.created = 2
    /\ ex[Cli].summary.updated = 2

\* C4: no category table holds two rows with one (codigo_propiedad,
\* sitio_origen).
C4_UniqueKey == \A k \in Keys : tabla[k] <= 1

\* C5: no two invocations for one source are in flight at a time.
C5_OneInFlightPerSource ==
    \A e1, e2 \in Execs :
       (e1 # e2 /\ Running(e1) /\ Running(e2)) => ex[e1].url_id # ex[e2].url_id

\* C6, as claimed: a dispatch that is reported failed was executed 3 times.
C6_ThreeExecutions ==
    \A e \in Execs : (Over(e) /\ ex[e].outcome = "failed") => ex[e].attempt = 3

\* C6, amended: a dispatch that is reported failed was executed 4 times, the
\* first execution and max_retries = 3 retries.
C6_FourExecutions ==
    \A e \in Execs : (Over(e) /\ ex[e].outcome = "failed") => ex[e].attempt = 4

C6_Witness ==
    \E e \in Execs : Over(e) /\ ex[e].outcome = "failed" /\ ex[e].attempt = 4
                     /\ ~ex[e].db_error

\* C7: an attempt that fails and asks for a retry leaves failed_scrapes and
\* total_scrapes of its source as they were; the attempt that reports the
\* dispatch failed adds one to each.
C7_CountedOncePerDispatch ==
    [][\A e \in Execs :
         (ex[e].pc = "errmark" /\ ex'[e].pc = "done") =>
            LET s == ex[e].url_id
                d == IF ex'[e].outcome = "failed" THEN 1 ELSE 0
            IN  ex'[e].outcome \in {"retry", "failed"} =>
                  /\ url'[s].failed_scrapes = url[s].failed_scrapes + d
                  /\ url'[s].total_scrapes = url[s].total_scrapes + d]_vars

\* C8: the k-th retry of a dispatch is sent with a countdown of 60 x k
\* seconds, k = 1, 2, 3, by the k-th execution, and by an execution whose
\* retry count is below max_retries.
C8_LinearDelay ==
    /\ \A m \in BagToSet(queue) :
          m.retries > 0 => /\ m.countdown = 60 * m.retries
                           /\ m.retries \in 1..3
                           /\ m.attempt = m.retries
    /\ \A e \in Execs :
          (Over(e) /\ ex[e].outcome = "retry")
          => /\ ex[e].countdown = 60 * ex[e].attempt
             /\ ex[e].retries < max_retries

\* The third retry waits for its 180 seconds.
C8_Witness ==
    \E m \in BagToSet(queue) : m.retries = 3 /\ m.countdown = 180

\* C9: the failing execution of a dispatch whose retries are used up
\* returns the failed summary and sends no message (the save of its source
\* not failing); no message asks for more than max_retries retries.
C9_ChainEnds ==
    /\ [][\A e \in Execs :
            (ex[e].pc = "errmark" /\ ex[e].retries >= max_retries
             /\ ex'[e].pc = "done" /\ ~ex'[e].db_error)
            => /\ ex'[e].outcome = "failed"
               /\ ex'[e].summary.status = "failed"
               /\ queue' = queue]_vars
    /\ [](\A m \in BagToSet(queue) : m.retries <= max_retries)

C9_Witness ==
    \E e \in Execs : /\ Over(e) /\ ex[e].retries = max_retries
                     /\ ex[e].outcome = "failed" /\ ~ex[e].db_error
                     /\ ex[e].properties_data = <<>>

\* C10: every invocation on an existing source ends by returning a summary
\* to its caller, whatever failed in the fetch, the extraction or the
\* candidates (the save of its source not failing).
C10_AlwaysSummary ==
    \A e \in Execs :
       (Over(e) /\ ~ex[e].db_error) => ex[e].outcome \in {"success", "failed"}

\* C11: a log finalized completed counted no failed candidate, and a log
\* finalized partial counted a failed candidate and a created or updated one.
C11_PartialHasStored ==
    \A e \in Execs :
       LET l == ex[e].scraping_log IN
       /\ l.status = "completed" => l.properties_failed = 0
       /\ l.status = "partial"
          => /\ l.properties_failed > 0
             /\ l.properties_created + l.properties_updated > 0
       /\ (ex[e].pc = "mark" /\ l.properties_failed = 0) => l.status = "completed"
       /\ (ex[e].pc = "mark" /\ l.properties_failed > 0
           /\ l.properties_created + l.properties_updated > 0) => l.status = "partial"

\* C12: the bookkeeping that follows a log finalized completed or partial
\* adds one to successful_scrapes of the source, leaves failed_scrapes as it
\* was and sets the status completed.
C12_FinalizedLogCountsSuccess ==
    [][(ex[Cli].pc = "mark" /\ ex'[Cli].pc = "done") =>
         LET s == ex[Cli].url_id IN
         /\ ex[Cli].scraping_log.status \in {"completed", "partial"}
         /\ url'[s].successful_scrapes = url[s].successful_scrapes + 1
         /\ url'[s].failed_scrapes = url[s].failed_scrapes
         /\ url'[s].status = "completed"]_vars

\* An invocation of e ends with this step, its source saved by
\* mark_as_scraped (no save of the source having failed).
Outcome(e) ==
    /\ ex[e].pc \in {"mark", "errmark"}
    /\ ex'[e].pc = "done"
    /\ ~ex'[e].db_error

\* C13, as claimed: after every outcome of an invocation (success, final
\* failure, failed attempt that is retried) last_scraped_at of the source is
\* the time of the outcome and next_scrape_at is last_scraped_at plus
\* scrape_frequency_hours.
C13_NextIsLastPlusFrequency ==
    [][\A e \in Execs : Outcome(e) =>
          LET u == url'[ex[e].url_id] IN
          /\ u.last_scraped_at \in {now, now'}
          /\ u.next_scrape_at = u.last_scraped_at + u.scrape_frequency_hours]_vars

\* C13, amended: after every outcome of an invocation last_scraped_at is the
\* clock as mark_as_scraped read it first, and next_scrape_at is the clock as
\* it read it again plus scrape_frequency_hours: never less than
\* last_scraped_at plus scrape_frequency_hours, and more when the clock has
\* advanced between the two readings.
C13_NextIsSecondReadingPlusFrequency ==
    [][\A e \in Execs : Outcome(e) =>
          LET u == url'[ex[e].url_id] IN
          /\ u.last_scraped_at = now
          /\ u.next_scrape_at = now' + u.scrape_frequency_hours
          /\ u.next_scrape_at >= u.last_scraped_at + u.scrape_frequency_hours]_vars

\* A failed attempt that is retried has marked its source while the clock
\* advanced.
C13_Witness ==
    \E e \in Execs :
       LET u == url[ex[e].url_id] IN
       /\ Over(e) /\ ex[e].outcome = "retry" /\ ~ex[e].db_error
       /\ u.last_scraped_at # Null
       /\ u.next_scrape_at > u.last_scraped_at + u.scrape_frequency_hours

\* C14: scrape_pending_urls sends one scrape_url_task message for each source
\* that is active, whose next_scrape_at is null or not after now, and whose
\* status is not in_progress, and none for any other source.
C14_PendingSelection ==
    [][ScrapePendingUrls =>
         \A s \in Src :
            CopiesIn(Fresh(s), queue') - CopiesIn(Fresh(s), queue)
            = IF /\ url[s].is_active
                 /\ (url[s].next_scrape_at = Null \/ url[s].next_scrape_at <= now)
                 /\ url[s].status # "in_progress"
              THEN 1 ELSE 0]_vars

\* A message was sent for one source while another is not yet due and has
\* none.
C14_Witness ==
    \E s1, s2 \in Src :
       /\ CopiesIn(Fresh(s1), queue) = 1
       /\ CopiesIn(Fresh(s2), queue) = 0
       /\ url[s1].status # "in_progress"
       /\ url[s2].status # "in_progress"
       /\ url[s2].next_scrape_at # Null /\ url[s2].next_scrape_at > now

\* The invocation of e has extracted its candidates and found none.
NoCandidates(e) ==
    ex[e].pc \notin {"idle", "extract"} /\ ex[e].properties_data = <<>>

\* C15: a run whose extraction yields no candidate goes to the failure
\* handler without storing anything: its log is saved failed with no record
\* counted, no table changes while it lasts, and while its retries are below
\* max_retries it ends, when run by a worker, by sending the retry (the save
\* of its source not failing).
C15_NoCandidatesFails ==
    /\ [](\A e \in Execs : NoCandidates(e) =>
            /\ ex[e].pc \in {"errlog", "errmark", "done"}
            /\ ex[e].created_count = 0 /\ ex[e].updated_count = 0
            /\ ex[e].pc \in {"errmark", "done"}
               => /\ ex[e].scraping_log.status = "failed"
                  /\ ex[e].scraping_log.properties_created = 0
                  /\ ex[e].scraping_log.properties_updated = 0)
    /\ [][\A e \in Execs : NoCandidates(e) =>
            /\ ex'[e].pc # "idle" => tabla' = tabla
            /\ (ex[e].pc = "errmark" /\ ex'[e].pc = "done" /\ ~ex'[e].db_error
                /\ ~ex[e].direct /\ ex[e].retries < max_retries)
               => /\ ex'[e].outcome = "retry"
                  /\ queue' = queue (+) SetToBag({[url_id |-> ex[e].url_id,
                                                   retries |-> ex[e].retries + 1,
                                                   attempt |-> ex[e].attempt,
                                                   countdown |-> ex'[e].countdown]})]_vars

\* A run that found no candidate, on tables that hold rows, has sent its retry.
C15_Witness ==
    \E e \in Execs :
       /\ NoCandidates(e) /\ Over(e) /\ ~ex[e].db_error
       /\ ex[e].outcome = "retry"
       /\ ex[e].scraping_log.status = "failed"
       /\ RowsIn(Keys) > 0
       /\ \E m \in BagToSet(queue) : m.url_id = ex[e].url_id /\ m.retries = ex[e].retries + 1

\* The candidate d cannot be stored: cleaning it raises, or the storage
\* engine rejects it.
Fails(d) == CleanRaises(d) \/ ColumnOverflow(CleanPropertyData(d))
\* The upsert key of candidate d of a source of site.
KeyFor(d, site) ==
    <<DeterminePropertyType(CleanPropertyData(d)),
      CodigoDe(CleanPropertyData(CleanPropertyData(d))), site>>

\* C17: the candidates of a run are processed one after the other, each once,
\* whatever fails for some of them: while the loop is at candidate i the i - 1
\* before it are counted, a finished run has counted as failed exactly the
\* candidates that cannot be stored and holds a row for every other one, and
\* its log is completed or partial, not failed.
C17_RecordFailuresIsolated ==
    LET x == ex[Cli]
        page == x.properties_data
        bad == {j \in 1..Len(page) : Fails(page[j])}
    IN  /\ x.pc \in {"loop", "insert"}
           => /\ x.i \in 1..Len(page)
              /\ x.created_count + x.updated_count + x.failed_count = x.i - 1
              /\ x.failed_count = Cardinality({j \in bad : j < x.i})
        /\ x.pc \in {"finalize", "mark"}
           => /\ x.i = Len(page) + 1
              /\ x.failed_count = Cardinality(bad)
              /\ x.created_count + x.updated_count = Len(page) - Cardinality(bad)
              /\ \A j \in 1..Len(page) :
                    j \notin bad => tabla[KeyFor(page[j], SiteName(x.url_id))] = 1
        /\ x.pc = "mark" => x.scraping_log.status \in {"completed", "partial"}
        /\ (Over(Cli) /\ page # <<>> /\ ~x.db_error)
           => /\ x.outcome = "success"
              /\ x.scraping_log.status \in {"completed", "partial"}
              /\ x.summary.failed = Cardinality(bad)

\* A finished run whose first candidate could not be cleaned and whose other
\* candidates were stored.
C17_Witness ==
    /\ Over(Cli) /\ ex[Cli].outcome = "success"
    /\ Fails(ex[Cli].properties_data[1])
    /\ ex[Cli].summary.failed = 1
    /\ ex[Cli].summary.created + ex[Cli].summary.updated = 2

\* The candidate d has no title and no positive price.
Vacio(d) == d.isdict /\ Strip(d.titulo) = "" /\ d.precio <= 0

\* C18: a candidate with an empty title and a price <= 0 is discarded: the
\* run counts it as failed and no table holds a row for it.
C18_EmptyRecordDiscarded ==
    LET x == ex[Cli]
        page == x.properties_data
        vacios == {j \in 1..Len(page) : Vacio(page[j])}
    IN  (Over(Cli) /\ x.outcome = "success") =>
           /\ x.summary.failed >= Cardinality(vacios)
           /\ \A j \in vacios : tabla[KeyFor(page[j], SiteName(x.url_id))] = 0

\* hybrid_extraction has returned.
Extracted == pure.fn = "hybrid_extraction" /\ pure.done

\* C16: when a request of the source page fails (no response, or a response
\* with a status that is not 2xx), hybrid_extraction hands over no candidate,
\* so that the run is finalized failed and stores nothing.
C16_FetchFailureYieldsNothing ==
    (Extracted /\ (pure.arg.llm_fetch # "ok" \/ pure.arg.fetch # "ok"))
    => pure.res = <<>>

\* The record prop is a duplicate of a record of kept: its title (trimmed,
\* lower-cased, not empty) is contained in, contains, or shares its first 30
\* characters with a kept title (not empty), or its price is positive and is
\* a kept price.
DuplicateOfKept(prop, kept) ==
    \E j \in 1..Len(kept) :
       /\ kept[j].isdict
       /\ \/ /\ PropTitle(prop) # <<>> /\ PropTitle(kept[j]) # <<>>
             /\ \/ Contains(PropTitle(kept[j]), PropTitle(prop))
                \/ Contains(PropTitle(prop), PropTitle(kept[j]))
                \/ Prefix(PropTitle(prop), 30) = Prefix(PropTitle(kept[j]), 30)
          \/ prop.precio > 0 /\ prop.precio = kept[j].precio

\* kept, followed by the records of bs from the k-th on that at their turn
\* are no duplicate of a record kept.
RECURSIVE GreedyMerge(_, _, _)
GreedyMerge(kept, bs, k) ==
    IF k > Len(bs) THEN kept
    ELSE GreedyMerge(IF DuplicateOfKept(bs[k], kept) THEN kept
                     ELSE Append(kept, bs[k]), bs, k + 1)

\* C19: the merge returns the LLM's records, unchanged and in their order,
\* followed by the heuristic records, in their order, that at their turn are
\* no duplicate of a record kept.
C19_GreedyMerge ==
    (Extracted /\ pure.arg.llm_fetch = "ok" /\ pure.arg.fetch # "error")
    => pure.res = GreedyMerge(pure.arg.llm, pure.arg.bs, 1)

\* determine_property_type has returned.
Classified == pure.fn = "determine_property_type" /\ pure.done
\* A keyword of W is in the title + ' ' + description of the record.
Matches(data, W) ==
    \E w \in W : Contains(Texto(data.titulo, data.descripcion), Letras(w))
GrupoTerreno == {"terreno", "lote", "sitio", "parcela", "predio"}
GrupoDepartamento == {"departamento", "depto", "apartamento", "flat",
                      "pent-house", "penthouse"}
GrupoPrefabricada == {"prefabricada", "modular", "container", "movil",
                      "tiny house"}
GrupoCasa == {"casa", "chalet", "villa", "cabana"}
\* The category of the first group with a keyword in the text, in the order
\* land, apartment, prefab, house; by the area when no group has one.
FirstGroup(data) ==
    IF Matches(data, GrupoTerreno) THEN "terreno"
    ELSE IF Matches(data, GrupoDepartamento) THEN "departamento"
    ELSE IF Matches(data, GrupoPrefabricada) THEN "casa_prefabricada"
    ELSE IF Matches(data, GrupoCasa) THEN "casa"
    ELSE IF data.metros_cuadrados > 500 THEN "terreno"
    ELSE IF data.metros_cuadrados < 80 THEN "departamento"
    ELSE "casa"
TituloConDepartamento(data) ==
    Contains(Lower(Letras(data.titulo)), Letras("departamento"))

\* C20, as claimed: the first keyword group that matches decides, the area
\* only when none matches, so that a title with 'departamento' in it gives
\* departamento whatever the area.
C20_DepartamentoTitle ==
    Classified =>
       /\ pure.res = FirstGroup(pure.arg)
       /\ TituloConDepartamento(pure.arg) => pure.res = "departamento"

\* C20, amended: the first keyword group that matches decides, the area only
\* when none matches, so that a title with 'departamento' in it gives
\* departamento whatever the area when neither the title nor the description
\* has a land keyword in it, and terreno when one of them has.
C20_FirstGroupWins ==
    Classified =>
       /\ pure.res = FirstGroup(pure.arg)
       /\ TituloConDepartamento(pure.arg)
          => pure.res = IF Matches(pure.arg, GrupoTerreno) THEN "terreno"
                        ELSE "departamento"

\* A title with 'departamento' and an area of a terreno: departamento.
C20_Witness ==
    /\ Classified
    /\ pure.arg.titulo = "Departamento amplio"
    /\ pure.arg.metros_cuadrados = 501
    /\ pure.res = "departamento"

\* _extract_from_container has set the price of its record.
Priced == pure.fn = "extract_price" /\ pure.done
\* The first '$' amount of the text as the first pattern matches it.
PesosMatch(t) == SearchPesos(Letras(t), TRUE)
PesosValue(t) == Float(ValueStr(PesosMatch(t).g1))
HasPesos(t) == PesosMatch(t).found /\ ~FloatRaises(ValueStr(PesosMatch(t).g1))

\* C21: a '$' amount is multiplied by 1,000,000 only when the word
\* 'millones' follows it in the matched text; without the word the price
\* is the amount itself ('$120.000.000' gives 120,000,000).
C21_MillonesOnlyWithWord ==
    Priced /\ HasPesos(pure.arg) =>
       pure.res.precio =
          IF Contains(Lower(PesosMatch(pure.arg).g0), Letras("millones"))
          THEN Times(PesosValue(pure.arg), 1, Millon)
          ELSE PesosValue(pure.arg)

\* extract_properties_with_llm has returned or raised.
LlmOver == pure.fn = "extract_properties_with_llm" /\ pure.done
\* The request, the LLM call or the decoding of its answer failed.
LlmFailure ==
    \/ pure.arg.fetch # "ok"
    \/ pure.arg.run.kind = "raise"
    \/ pure.arg.run.kind = "text" /\ ~pure.arg.run.valid

\* C22: extract_properties_with_llm never raises: whatever the request,
\* the LLM call and the decoding do, it returns a list, and the list is
\* empty when one of them failed.
C22_LlmNeverRaises ==
    LlmOver =>
       /\ ~pure.res.raised
       /\ pure.res.list
       /\ LlmFailure => pure.res.items = <<>>

\* The LLM call raised on a page that was fetched: an empty list.
C22_Witness ==
    /\ LlmOver
    /\ pure.arg.fetch = "ok" /\ pure.arg.run.kind = "raise"
    /\ ~pure.res.raised /\ pure.res.items = <<>>

\* The run of the command is past its extraction, in which the LLM found
\* nothing (its request failed, or its list is empty) and the heuristic
\* extractor found a record at least.
HeuristicOnly ==
    /\ ex[Cli].pc \notin {"idle", "extract"}
    /\ pure.fn = "hybrid_extraction"
    /\ ExtractPropertiesWithLlm(pure.arg.llm_fetch, pure.arg.llm) = <<>>
    /\ pure.arg.fetch # "error"
    /\ pure.arg.bs # <<>>

\* C23: when the LLM finds nothing and the heuristic extractor finds a
\* record at least, the candidates of the run are the heuristic records,
\* without their duplicates, the run does not go to its error handler
\* for want of candidates, and it ends with a log completed or partial, a
\* row for every candidate that can be stored and the others counted failed.
C23_HeuristicOnlyRun ==
    LET x == ex[Cli]
        page == x.properties_data
        bad == {j \in 1..Len(page) : Fails(page[j])}
    IN  HeuristicOnly =>
           /\ page = GreedyMerge(<<>>, pure.arg.bs, 1)
           /\ page # <<>>
           /\ x.pc = "errlog" => x.db_error
           /\ (Over(Cli) /\ ~x.db_error)
              => /\ x.outcome = "success"
                 /\ x.scraping_log.status \in {"completed", "partial"}
                 /\ x.summary.failed = Cardinality(bad)
                 /\ x.summary.created + x.summary.updated
                       = Len(page) - Cardinality(bad)
                 /\ \A j \in 1..Len(page) :
                       j \notin bad
                       => tabla[KeyFor(page[j], SiteName(x.url_id))] = 1

\* The request of the LLM extractor got an error status; the two heuristic
\* records that are no duplicate were created.
C23_Witness ==
    /\ HeuristicOnly /\ Over(Cli)
    /\ pure.arg.llm_fetch = "status"
    /\ Len(pure.arg.bs) = 3
    /\ ex[Cli].summary.created = 2
    /\ ex[Cli].scraping_log.status = "completed"

\* update_or_create has written the row of a candidate.
Stored == pure.fn = "create_or_update_property" /\ pure.done

\* C24: the fields of its category that the row holds after an upsert are
\* the ones the extracted record carries, the default where the record has
\* none, and with the common fields they replace what the row held.
C24_SpecificFieldsFromRecord ==
    Stored =>
       LET raw == pure.arg.data
           defaults == SpecificDefaults(DeterminePropertyType(CleanPropertyData(raw)))
       IN  /\ \A f \in DOMAIN defaults :
                 pure.res[f] = Get(raw, f, defaults[f])
           /\ \A f \in DOMAIN CommonData(CleanPropertyData(raw)) :
                 pure.res[f] = CommonData(CleanPropertyData(raw))[f]

\* The second request, the heuristic extraction and the merge raised nothing.
NoException ==
    /\ pure.arg.fetch # "error"
    /\ LET llm == ExtractPropertiesWithLlm(pure.arg.llm_fetch, pure.arg.llm)
       IN  pure.arg.bs = <<>> \/ \A j \in 1..Len(llm) : llm[j].isdict

\* C30: hybrid_extraction never raises; the list it returns begins with
\* the records the LLM extractor returned, whatever was raised after them;
\* when nothing was raised, every heuristic record is in the list or is a
\* duplicate of a record of the list.
C30_HybridNeverRaises ==
    Extracted =>
       LET llm == ExtractPropertiesWithLlm(pure.arg.llm_fetch, pure.arg.llm)
       IN  /\ ~pure.raised
           /\ Len(pure.res) >= Len(llm)
           /\ SubSeq(pure.res, 1, Len(llm)) = llm
           /\ NoException
              => \A k \in 1..Len(pure.arg.bs) :
                    \/ \E j \in 1..Len(pure.res) : pure.res[j] = pure.arg.bs[k]
                    \/ DuplicateOfKept(pure.arg.bs[k], pure.res)

\* The merge raised on an element of the LLM's list that is no dict, and
\* the list of the LLM was returned.
C30_Witness ==
    /\ Extracted
    /\ pure.arg.llm_fetch = "ok" /\ pure.arg.fetch = "ok"
    /\ pure.arg.bs # <<>>
    /\ \E j \in 1..Len(pure.arg.llm) : ~pure.arg.llm[j].isdict
    /\ ~pure.raised
    /\ pure.res = pure.arg.llm

\* C25: deactivate_failed_urls disables (is_active False, status 'disabled')
\* the active sources that failed more than 5 times and never succeeded,
\* and changes no other source.
C25_DisablesOverThreshold ==
    [][(DeactivateFailedUrls \/ ManageDbDeactivate) =>
          \A s \in Src :
             url'[s] = IF /\ url[s].is_active
                          /\ url[s].failed_scrapes > FailedThreshold
                          /\ url[s].successful_scrapes = 0
                       THEN [url[s] EXCEPT !.is_active = FALSE,
                                           !.status = "disabled"]
                       ELSE url[s]]_vars

\* The step of execution e is a call of mark_as_scraped (line 928 or 962).
MarkStep(e) == ex[e].pc \in {"mark", "errmark"} /\ ex'[e].pc # ex[e].pc
\* The call saved the row, in an execution the database never failed.
MarkSaved(e) == ex'[e].pc = "done" /\ ~ex'[e].db_error
\* From u to v one more scrape is counted, in total and in counter c alone.
CountsOne(u, v) ==
    /\ v.total_scrapes = u.total_scrapes + 1
    /\ \/ /\ v.successful_scrapes = u.successful_scrapes + 1
          /\ v.failed_scrapes = u.failed_scrapes
       \/ /\ v.successful_scrapes = u.successful_scrapes
          /\ v.failed_scrapes = u.failed_scrapes + 1

\* C26: whatever the executions, overlapping ones included, every execution
\* that finishes and saves the source raises the row's total_scrapes by one
\* and one of successful_scrapes, failed_scrapes by one: no increment is lost.
C26_NoLostIncrement ==
    [][\A e \in Execs :
          (MarkStep(e) /\ MarkSaved(e)) =>
             CountsOne(url[ex[e].url_id], url'[ex[e].url_id])]_vars

\* An execution for source s has begun and its worker is not yet free again.
InFlight(s) == \E e \in Execs : ex[e].pc # "idle" /\ ex[e].url_id = s

\* C27: an execution that set the source in_progress writes completed or
\* failed before it ends: while no execution for a source is in flight, its
\* status is not in_progress.
C27_NotLeftInProgress ==
    \A s \in Src : ~InFlight(s) => url[s].status # "in_progress"

\* deactivate_failed_urls left the source so.
Disabled(u) == ~u.is_active /\ u.status = "disabled"

\* C28: once deactivate_failed_urls has disabled a source, no step of the
\* pipeline changes its is_active or its status again: neither an execution
\* in flight saving its copy nor a retry already scheduled.
C28_DisabledStays ==
    [][\A s \in Src : Disabled(url[s]) => Disabled(url'[s])]_vars

\* C29: total_scrapes = successful_scrapes + failed_scrapes in every state,
\* and each call of mark_as_scraped raises total_scrapes by one and exactly
\* one of the two other counters by one.
C29_CountersAddUp ==
    /\ [](\A s \in Src :
            url[s].total_scrapes
               = url[s].successful_scrapes + url[s].failed_scrapes)
    /\ [][\A e \in Execs :
             MarkStep(e) => CountsOne(ex[e].url_obj, ex'[e].url_obj)]_vars
\* A source marked at least twice, once as a success and once as a failure.
C29_Witness ==
    \E s \in Src : url[s].successful_scrapes >= 1 /\ url[s].failed_scrapes >= 1

====
